---- MODULE Spec2Model ----
(***************************************************************************)
(* Model of the chat assistant page script (main.py) and of its response   *)
(* generation function (utils.py).  One page run of the script is a        *)
(* sequence of steps, one action per step; the session state (messages,    *)
(* chat_history, mode, retriever) outlives the runs.                       *)
(***************************************************************************)
EXTENDS Integers, Sequences, FiniteSets, TLC

VARIABLES
    pc,                   \* position of the page run in main.py
    messages,             \* st.session_state.messages
    chat_history,         \* st.session_state.chat_history
    mode,                 \* st.session_state.mode
    initialized,          \* "initialized" in st.session_state
    retriever,            \* st.session_state.retriever
    chat_message,         \* value of st.chat_input in this run
    ret,                  \* outcome of the call utils.get_llm_response(chat_message)
    llm_response,         \* main.py local llm_response
    content_for_history,  \* main.py local content_for_history
    render_branch,        \* branch of step 7-3 that was taken
    log_displayed,        \* messages rendered by display_conversation_log in this run
    error_banner          \* text shown by st.error in this run

vars == <<pc, messages, chat_history, mode, initialized, retriever, chat_message,
          ret, llm_response, content_for_history, render_branch, log_displayed,
          error_banner>>

----------------------------------------------------------------------------
(* Bounds *)

MaxTurns == 2

----------------------------------------------------------------------------
(* constants.py *)

ANSWER_MODE_1 == "document_search"
ANSWER_MODE_2 == "internal_inquiry"
COMMON_ERROR_MESSAGE == "Please contact the administrator if the problem persists."
INITIALIZE_ERROR_MESSAGE == "Initialization failed."
CONVERSATION_LOG_ERROR_MESSAGE == "Failed to display the conversation log."
GET_LLM_RESPONSE_ERROR_MESSAGE == "Failed to generate the answer."
DISP_ANSWER_ERROR_MESSAGE == "Failed to display the answer."
INQUIRY_NO_MATCH_ANSWER == "No matching information was found."
LINK_SOURCE_ICON == ":link:"
DOC_SOURCE_ICON == ":doc:"

----------------------------------------------------------------------------
(* Python values *)

\* None, as the value of a variable that holds a string, and as a record
None == "None"
NoneValue == [none |-> TRUE]

\* Python truthiness of an Optional[str]
Truthy(s) == s # None /\ s # ""

\* the mode key is absent from st.session_state
NoMode == "absent"

Modes == {ANSWER_MODE_1, ANSWER_MODE_2}

\* states of the session's retriever once initialize() has returned
Retrievers == {"ok", "broken", "missing"}

\* texts are strings; paths are sequences of one-character strings
LowerChar(c) ==
    CASE c = "P" -> "p" [] c = "D" -> "d" [] c = "F" -> "f" [] OTHER -> c

Lower(path) == [i \in 1..Len(path) |-> LowerChar(path[i])]

EndsWith(path, suffix) ==
    /\ Len(path) >= Len(suffix)
    /\ SubSeq(path, Len(path) - Len(suffix) + 1, Len(path)) = suffix

StartsWith(path, prefix) ==
    /\ Len(path) >= Len(prefix)
    /\ SubSeq(path, 1, Len(prefix)) = prefix

Digit(n) == <<"0", "1", "2", "3", "4", "5", "6", "7", "8", "9">>[n + 1]

RECURSIVE IntStr(_)
IntStr(n) == IF n < 10 THEN <<Digit(n)>> ELSE IntStr(n \div 10) \o <<Digit(n % 10)>>

----------------------------------------------------------------------------
(* The outside world: the user, the LLM client, the vector store *)

ChatInputs == {None, "question 1", "question 2"}

Answers == {"", "an answer"}

ErrTexts == {"rate limit exceeded"}

PdfDocument ==
    [metadata |-> [source |-> <<"a", ".", "P", "D", "F">>, page |-> <<12>>]]
LinkDocument ==
    [metadata |-> [source |-> <<"h", "t", "t", "p", ":", "x">>, page |-> <<>>]]

Contexts == {<<>>, <<PdfDocument, LinkDocument>>}

\* what the external calls of one get_llm_response call do
Envs ==
    [llm_ctor_ok : BOOLEAN, chain_build_ok : BOOLEAN, prompt_ok : BOOLEAN,
     invoke_ok : BOOLEAN, answer : Answers, context : Contexts, err : ErrTexts]

----------------------------------------------------------------------------
(* utils.py *)

get_source_icon(source) ==
    IF StartsWith(source, <<"h", "t", "t", "p">>) THEN LINK_SOURCE_ICON ELSE DOC_SOURCE_ICON

build_error_message(message) == message \o "\n" \o COMMON_ERROR_MESSAGE

HumanMessage(content) == [type |-> "human", content |-> content]
AIMessage(content) == [type |-> "ai", content |-> content]

\* the history is replaced instead of extended
update_chat_history_Replace(history, user_text, ai_text) ==
    <<HumanMessage(user_text), AIMessage(ai_text)>>

\* extend() of the list that initialize() created; the except branch is for
\* a session without chat_history, which no run past step 3 has
update_chat_history(history, user_text, ai_text) ==
    history \o <<HumanMessage(user_text), AIMessage(ai_text)>>

\* page_number is <<>> for None and <<n>> for the page n
format_file_info(path, page_number) ==
    IF EndsWith(Lower(path), <<".", "p", "d", "f">>) /\ page_number # <<>>
    THEN path \o <<"(", "p", ".">> \o IntStr(page_number[1]) \o <<")">>
    ELSE path

RagDebugAnswer(e) ==
    "[LLM call failed (RAG mode)]\n" \o "detail: " \o e \o "\n\n" \o "possible causes: ..."

InquiryDebugAnswer(e) ==
    "[LLM call failed (inquiry mode)]\n" \o "detail: " \o e \o "\n\n" \o "possible causes: ..."

\* an exception leaves get_llm_response
Raise(e, history, used) ==
    [path |-> "raised", value |-> [exception |-> e],
     chat_history |-> history, used_retriever |-> used]

RagReturn(result, history, text) ==
    [path |-> "rag_ok", value |-> result,
     chat_history |-> update_chat_history(history, text, result.answer),
     used_retriever |-> TRUE]

\* the except branch returns documents
RagExcept_StaleContext(e, history, text) ==
    [path |-> "rag_except",
     value |-> [answer |-> RagDebugAnswer(e), context |-> <<PdfDocument>>],
     chat_history |-> update_chat_history(history, text, RagDebugAnswer(e)),
     used_retriever |-> TRUE]

\* the except branch does not record the failed turn
RagExcept_NoHistory(e, history, text) ==
    [path |-> "rag_except",
     value |-> [answer |-> RagDebugAnswer(e), context |-> <<>>],
     chat_history |-> history,
     used_retriever |-> TRUE]

RagExcept(e, history, text) ==
    [path |-> "rag_except",
     value |-> [answer |-> RagDebugAnswer(e), context |-> <<>>],
     chat_history |-> update_chat_history(history, text, RagDebugAnswer(e)),
     used_retriever |-> TRUE]

\* the branch of ANSWER_MODE_1: the chain is built outside the try, and
\* invoked inside it
RagBranch(text, history, retr, env) ==
    IF retr = "missing" \/ ~env.chain_build_ok
    THEN Raise(env.err, history, TRUE)
    ELSE IF retr = "ok" /\ env.invoke_ok
         THEN RagReturn([input |-> text, chat_history |-> history,
                         context |-> env.context, answer |-> env.answer],
                        history, text)
         ELSE RagExcept(env.err, history, text)

\* the inquiry branch returns documents
InquiryReturn_WithContext(path, answer_text, history, text) ==
    [path |-> path,
     value |-> [answer |-> answer_text, context |-> <<PdfDocument, LinkDocument>>],
     chat_history |-> update_chat_history(history, text, answer_text),
     used_retriever |-> FALSE]

InquiryReturn(path, answer_text, history, text) ==
    [path |-> path,
     value |-> [answer |-> answer_text, context |-> <<>>],
     chat_history |-> update_chat_history(history, text, answer_text),
     used_retriever |-> FALSE]

\* the inquiry branch goes through the session's retriever
InquiryBranch_UsesRetriever(text, history, retr, env) ==
    IF ~env.prompt_ok \/ retr = "missing"
    THEN Raise(env.err, history, retr = "missing")
    ELSE IF env.invoke_ok /\ retr = "ok"
         THEN [InquiryReturn("inquiry_ok", env.answer, history, text)
                  EXCEPT !.used_retriever = TRUE]
         ELSE [InquiryReturn("inquiry_except", InquiryDebugAnswer(env.err),
                             history, text)
                  EXCEPT !.used_retriever = TRUE]

\* the else branch: the prompt is expanded outside the try, the LLM is
\* invoked inside it
InquiryBranch(text, history, retr, env) ==
    IF ~env.prompt_ok
    THEN Raise(env.err, history, FALSE)
    ELSE IF env.invoke_ok
         THEN InquiryReturn("inquiry_ok", env.answer, history, text)
         ELSE InquiryReturn("inquiry_except", InquiryDebugAnswer(env.err),
                            history, text)

get_llm_response(text, m, history, retr, env) ==
    IF ~env.llm_ctor_ok
    THEN Raise(env.err, history, FALSE)
    ELSE IF m = ANSWER_MODE_1
         THEN RagBranch(text, history, retr, env)
         ELSE InquiryBranch(text, history, retr, env)

----------------------------------------------------------------------------
(* components.py *)

FileInfoList(context_docs) ==
    [i \in 1..Len(context_docs) |->
        format_file_info(context_docs[i].metadata.source, context_docs[i].metadata.page)]

\* the record stored for a document-search answer: the answer text, and the
\* advisory message and the citations when documents were retrieved
display_search_llm_response(response) ==
    IF response.context # <<>>
    THEN [mode |-> ANSWER_MODE_1, answer |-> response.answer,
          message |-> "These files may contain the information.",
          file_info_list |-> FileInfoList(response.context)]
    ELSE [mode |-> ANSWER_MODE_1, answer |-> response.answer]

----------------------------------------------------------------------------
(* main.py *)

NoRet == [path |-> "none", value |-> NoneValue, used_retriever |-> FALSE]

Init ==
    /\ pc = "initialize"
    /\ messages = <<>>
    /\ chat_history = <<>>
    /\ mode = NoMode
    /\ initialized = FALSE
    /\ retriever = "missing"
    /\ chat_message = None
    /\ ret = NoRet
    /\ llm_response = NoneValue
    /\ content_for_history = NoneValue
    /\ render_branch = "none"
    /\ log_displayed = <<>>
    /\ error_banner = ""

\* st.error(...) followed by st.stop()
Stop(message) ==
    /\ error_banner' = build_error_message(message)
    /\ pc' = "stopped"

\* initialize() sets the session up on its first success and keeps it
\* afterwards; r is the retriever it loads or builds
initialize(done, current, r) == IF done THEN current ELSE r

\* step 3, and the defaults of "initialized" and "mode"
Initialize ==
    /\ pc = "initialize"
    /\ \E ok \in BOOLEAN, r \in Retrievers :
        IF ok
        THEN /\ retriever' = initialize(initialized, retriever, r)
             /\ initialized' = TRUE
             /\ mode' = IF mode = NoMode THEN ANSWER_MODE_1 ELSE mode
             /\ pc' = "select_mode"
             /\ UNCHANGED error_banner
        ELSE /\ Stop(INITIALIZE_ERROR_MESSAGE)
             /\ UNCHANGED <<retriever, initialized, mode>>
    /\ UNCHANGED <<messages, chat_history, chat_message, ret, llm_response,
                   content_for_history, render_branch, log_displayed>>

\* step 4: the radio button of the sidebar
DisplaySelectMode ==
    /\ pc = "select_mode"
    /\ \E m \in Modes : mode' = m
    /\ pc' = "conversation_log"
    /\ UNCHANGED <<messages, chat_history, initialized, retriever, chat_message, ret,
                   llm_response, content_for_history, render_branch, log_displayed,
                   error_banner>>

\* step 5
DisplayConversationLog ==
    /\ pc = "conversation_log"
    /\ \E ok \in BOOLEAN :
        IF ok
        THEN /\ log_displayed' = messages
             /\ pc' = "chat_input"
             /\ UNCHANGED error_banner
        ELSE /\ Stop(CONVERSATION_LOG_ERROR_MESSAGE)
             /\ UNCHANGED log_displayed
    /\ UNCHANGED <<messages, chat_history, mode, initialized, retriever, chat_message,
                   ret, llm_response, content_for_history, render_branch>>

\* step 7-1 stores the user entry as soon as it is displayed
ChatInput_AppendsEarly ==
    /\ pc = "chat_input"
    /\ \E text \in ChatInputs :
        /\ Truthy(text) => Len(messages) < 2 * MaxTurns
        /\ chat_message' = text
        /\ pc' = IF Truthy(text) THEN "get_llm_response" ELSE "done"
        /\ messages' = IF Truthy(text)
                       THEN Append(messages, [role |-> "user", content |-> text])
                       ELSE messages
    /\ UNCHANGED <<chat_history, mode, initialized, retriever, ret,
                   llm_response, content_for_history, render_branch, log_displayed,
                   error_banner>>

\* step 6, and step 7-1 when an input was submitted
ChatInput ==
    /\ pc = "chat_input"
    /\ \E text \in ChatInputs :
        /\ Truthy(text) => Len(messages) < 2 * MaxTurns
        /\ chat_message' = text
        /\ pc' = IF Truthy(text) THEN "get_llm_response" ELSE "done"
    /\ UNCHANGED <<messages, chat_history, mode, initialized, retriever, ret,
                   llm_response, content_for_history, render_branch, log_displayed,
                   error_banner>>

\* the fallback of step 7-2 puts the mode back to its default
Step72_ResetsMode ==
    /\ pc = "get_llm_response"
    /\ \E env \in Envs :
        LET r == get_llm_response(chat_message, mode, chat_history, retriever, env) IN
        /\ ret' = [path |-> r.path, value |-> r.value,
                   used_retriever |-> r.used_retriever]
        /\ chat_history' = r.chat_history
        /\ llm_response' =
              IF r.path = "raised"
              THEN [answer |-> build_error_message(GET_LLM_RESPONSE_ERROR_MESSAGE),
                    context |-> <<>>]
              ELSE r.value
        /\ mode' = IF r.path = "raised" THEN ANSWER_MODE_1 ELSE mode
    /\ pc' = "render"
    /\ UNCHANGED <<messages, initialized, retriever, chat_message,
                   content_for_history, render_branch, log_displayed, error_banner>>

\* step 7-2: the call of get_llm_response and its fallback
Step72 ==
    /\ pc = "get_llm_response"
    /\ \E env \in Envs :
        LET r == get_llm_response(chat_message, mode, chat_history, retriever, env) IN
        /\ ret' = [path |-> r.path, value |-> r.value,
                   used_retriever |-> r.used_retriever]
        /\ chat_history' = r.chat_history
        /\ llm_response' =
              IF r.path = "raised"
              THEN [answer |-> build_error_message(GET_LLM_RESPONSE_ERROR_MESSAGE),
                    context |-> <<>>]
              ELSE r.value
    /\ pc' = "render"
    /\ UNCHANGED <<messages, mode, initialized, retriever, chat_message,
                   content_for_history, render_branch, log_displayed, error_banner>>

\* step 7-3 (B): the inquiry answer is rendered by main.py itself
render_inquiry(response) ==
    LET answer_text == IF response.answer = ""
                       THEN "(no answer text)" ELSE response.answer
        context_docs == response.context
        file_info_list == FileInfoList(context_docs)
        message_for_user == IF context_docs # <<>>
                            THEN "Candidate sources are shown for reference." ELSE ""
        base == [mode |-> ANSWER_MODE_2, answer |-> answer_text]
    IN  IF answer_text # INQUIRY_NO_MATCH_ANSWER /\ message_for_user # ""
        THEN IF file_info_list # <<>>
             THEN [mode |-> ANSWER_MODE_2, answer |-> answer_text,
                   message |-> message_for_user, file_info_list |-> file_info_list]
             ELSE [mode |-> ANSWER_MODE_2, answer |-> answer_text,
                   message |-> message_for_user]
        ELSE IF answer_text # INQUIRY_NO_MATCH_ANSWER /\ file_info_list # <<>>
             THEN [mode |-> ANSWER_MODE_2, answer |-> answer_text,
                   file_info_list |-> file_info_list]
             ELSE base

\* step 7-3 (C)
render_unknown ==
    [mode |-> "unknown", answer |-> "The current mode is unknown."]

RenderBranch(m) ==
    IF m = ANSWER_MODE_1 THEN "A" ELSE IF m = ANSWER_MODE_2 THEN "B" ELSE "C"

\* the content of the try of step 7-3
RenderContent(m, response) ==
    IF m = ANSWER_MODE_1 THEN display_search_llm_response(response)
    ELSE IF m = ANSWER_MODE_2 THEN render_inquiry(response)
    ELSE render_unknown

\* the except branch of step 7-3 stops the run as step 5 does
Step73_Stops ==
    /\ pc = "render"
    /\ render_branch' = RenderBranch(mode)
    /\ \E ok \in BOOLEAN :
        IF ok
        THEN /\ content_for_history' = RenderContent(mode, llm_response)
             /\ pc' = "append"
             /\ UNCHANGED error_banner
        ELSE /\ Stop(DISP_ANSWER_ERROR_MESSAGE)
             /\ UNCHANGED content_for_history
    /\ UNCHANGED <<messages, chat_history, mode, initialized, retriever, chat_message,
                   ret, llm_response, log_displayed>>

\* step 7-3 with its except branch
Step73 ==
    /\ pc = "render"
    /\ render_branch' = RenderBranch(mode)
    /\ \E ok \in BOOLEAN :
        IF ok
        THEN /\ content_for_history' = RenderContent(mode, llm_response)
             /\ UNCHANGED error_banner
        ELSE /\ error_banner' = build_error_message(DISP_ANSWER_ERROR_MESSAGE)
             /\ content_for_history' =
                   [mode |-> mode,
                    answer |-> build_error_message(DISP_ANSWER_ERROR_MESSAGE)]
    /\ pc' = "append"
    /\ UNCHANGED <<messages, chat_history, mode, initialized, retriever, chat_message,
                   ret, llm_response, log_displayed>>

\* step 7-4
Step74 ==
    /\ pc = "append"
    /\ messages' = messages \o
          << [role |-> "user", content |-> chat_message],
             [role |-> "assistant", content |-> content_for_history] >>
    /\ pc' = "done"
    /\ UNCHANGED <<chat_history, mode, initialized, retriever, chat_message, ret,
                   llm_response, content_for_history, render_branch, log_displayed,
                   error_banner>>

\* the next interaction of the user reruns the script from the top
Rerun ==
    /\ pc \in {"done", "stopped"}
    /\ pc' = "initialize"
    /\ chat_message' = None
    /\ ret' = NoRet
    /\ llm_response' = NoneValue
    /\ content_for_history' = NoneValue
    /\ render_branch' = "none"
    /\ log_displayed' = <<>>
    /\ error_banner' = ""
    /\ UNCHANGED <<messages, chat_history, mode, initialized, retriever>>

Next ==
    \/ Initialize
    \/ DisplaySelectMode
    \/ DisplayConversationLog
    \/ ChatInput
    \/ Step72
    \/ Step73
    \/ Step74
    \/ Rerun

Spec == Init /\ [][Next]_vars

TypeOK ==
    /\ pc \in {"initialize", "select_mode", "conversation_log", "chat_input",
               "get_llm_response", "render", "append", "done", "stopped"}
    /\ mode \in Modes \cup {NoMode}
    /\ retriever \in Retrievers
    /\ Len(messages) <= 2 * MaxTurns

----------------------------------------------------------------------------
(* Properties *)

IsPrefix(s, t) == Len(s) <= Len(t) /\ SubSeq(t, 1, Len(s)) = s

ExceptPaths == {"rag_except", "inquiry_except"}

Called == ret.path # "none"

DispError == build_error_message(DISP_ANSWER_ERROR_MESSAGE)

UserEntry == [role |-> "user", content |-> chat_message]

\* C1: get_llm_response never lets an exception out; after a failure of an
\* external call it returns a record whose answer is a non-empty diagnostic.
C1_NeverPropagates ==
    Called =>
        /\ ret.path # "raised"
        /\ ret.path \in ExceptPaths => ret.value.answer # ""

\* C2: every value get_llm_response returns has an answer and a context, and
\* the context is empty when the mode is not document search and when the
\* invocation failed.
C2_ReturnShape ==
    (Called /\ ret.path # "raised") =>
        /\ {"answer", "context"} \subseteq DOMAIN ret.value
        /\ (mode # ANSWER_MODE_1 \/ ret.path \in ExceptPaths) => ret.value.context = <<>>

C2_Witness ==
    /\ ret.path = "rag_except"
    /\ ret.value.context = <<>>
    /\ ret.value.answer # ""

\* C3: no assistant entry of messages produced in internal-inquiry mode has a
\* file_info_list field or an advisory message field.
C3_NoCitationInInquiry ==
    \A i \in 1..Len(messages) :
        (messages[i].role = "assistant" /\ messages[i].content.mode = ANSWER_MODE_2) =>
            /\ "file_info_list" \notin DOMAIN messages[i].content
            /\ "message" \notin DOMAIN messages[i].content

C3_Witness ==
    /\ Len(messages) >= 2
    /\ messages[2].content.mode = ANSWER_MODE_2
    /\ messages[2].content.answer = "an answer"

\* C4 as stated: a turn whose invocation failed appends the pair (input,
\* diagnostic) to chat_history, and the user entry and an assistant entry whose
\* answer is the diagnostic to messages.
C4_FailedTurnRecorded ==
    [][ /\ (pc = "get_llm_response" /\ ret'.path \in ExceptPaths) =>
              chat_history' = chat_history \o
                  <<HumanMessage(chat_message), AIMessage(ret'.value.answer)>>
        /\ (pc = "append" /\ ret.path \in ExceptPaths) =>
              /\ Len(messages') = Len(messages) + 2
              /\ SubSeq(messages', 1, Len(messages)) = messages
              /\ messages'[Len(messages) + 1] = UserEntry
              /\ messages'[Len(messages) + 2].role = "assistant"
              /\ messages'[Len(messages) + 2].content.answer = ret.value.answer
      ]_vars

\* C4 amended: as C4, and when rendering the answer failed too the assistant
\* entry's answer is the display error message instead of the diagnostic.
C4_FailedTurnRecordedUnlessRenderFails ==
    [][ /\ (pc = "get_llm_response" /\ ret'.path \in ExceptPaths) =>
              chat_history' = chat_history \o
                  <<HumanMessage(chat_message), AIMessage(ret'.value.answer)>>
        /\ (pc = "append" /\ ret.path \in ExceptPaths) =>
              /\ Len(messages') = Len(messages) + 2
              /\ SubSeq(messages', 1, Len(messages)) = messages
              /\ messages'[Len(messages) + 1] = UserEntry
              /\ messages'[Len(messages) + 2].role = "assistant"
              /\ messages'[Len(messages) + 2].content.answer =
                    IF error_banner = DispError THEN DispError ELSE ret.value.answer
      ]_vars

C4_Witness ==
    /\ pc = "done"
    /\ ret.path = "inquiry_except"
    /\ error_banner = ""
    /\ messages[Len(messages)].content.answer = InquiryDebugAnswer("rate limit exceeded")
    /\ chat_history[Len(chat_history)] = AIMessage(InquiryDebugAnswer("rate limit exceeded"))

\* C5: messages and chat_history only grow by appending, and a submitted input
\* appends to messages exactly the user entry and then the assistant entry.
C5_AppendOnly ==
    /\ [][ /\ IsPrefix(messages, messages')
           /\ IsPrefix(chat_history, chat_history')
           /\ messages' # messages =>
                 messages' = messages \o
                     <<UserEntry, [role |-> "assistant", content |-> content_for_history]>>
         ]_vars
    /\ [](pc = "done" /\ Truthy(chat_message) =>
             /\ Len(messages) = Len(log_displayed) + 2
             /\ messages[Len(messages) - 1] = UserEntry
             /\ messages[Len(messages)].role = "assistant")

C5_Witness ==
    /\ pc = "done"
    /\ Len(messages) = 4
    /\ Len(chat_history) = 4
    /\ messages[1].content # messages[3].content

\* C6 as stated: only a failure of the initialization halts the page run.
C6_OnlyInitializationHalts ==
    pc = "stopped" => error_banner = build_error_message(INITIALIZE_ERROR_MESSAGE)

\* C6 amended: the run halts only on a failure of the initialization or of
\* the rendering of the conversation log; a failure while generating the
\* response or rendering the answer never stops it, and the turn runs to its end.
C6_HaltsOnlyBeforeInput ==
    [][ /\ pc' = "stopped" => pc \in {"initialize", "conversation_log"}
        /\ pc = "get_llm_response" => pc' = "render"
        /\ pc = "render" => pc' = "append"
        /\ pc = "append" => pc' = "done"
      ]_vars

C6_Witness ==
    /\ pc = "done"
    /\ ret.path = "raised"
    /\ error_banner = DispError
    /\ Len(messages) >= 2

\* C7: only the mode selector changes the mode (the default of step 3 sets it
\* when it is absent); the turn and its error paths leave it alone, so
\* get_llm_response and the rendering step take the branch of the same mode.
C7_ModeFrame ==
    /\ [][ mode' # mode =>
              \/ pc = "select_mode"
              \/ pc = "initialize" /\ mode = NoMode
         ]_vars
    /\ []((render_branch # "none" /\ ret.path # "raised") =>
             /\ render_branch = "A" <=> ret.path \in {"rag_ok", "rag_except"}
             /\ render_branch = "B" <=> ret.path \in {"inquiry_ok", "inquiry_except"})

C7_Witness ==
    /\ pc = "done"
    /\ mode = ANSWER_MODE_2
    /\ ret.path = "inquiry_except"
    /\ render_branch = "B"
    /\ error_banner = DispError

\* C8 as stated: no history list is modified before the result of the turn
\* has been rendered.
C8_NoHistoryWriteBeforeRender ==
    [][ (messages' # messages \/ chat_history' # chat_history) => pc = "append" ]_vars

\* C8 amended: the steps of a turn run in the order render history, accept
\* input, call the response function, render the result, append to messages;
\* messages is modified only by the last step, and chat_history only by the
\* call of the response function, before the result is rendered.
C8_StepOrder ==
    [][ /\ messages' # messages => pc = "append"
        /\ chat_history' # chat_history => pc = "get_llm_response"
        /\ pc' = "chat_input" => (pc = "conversation_log" /\ log_displayed' = messages)
        /\ pc' = "get_llm_response" => (pc = "chat_input" /\ log_displayed = messages)
        /\ pc' = "render" => pc = "get_llm_response"
        /\ pc' = "append" => pc = "render"
        /\ pc' = "done" => pc \in {"append", "chat_input"}
      ]_vars

C8_Witness ==
    /\ pc = "append"
    /\ log_displayed = messages
    /\ Len(chat_history) = Len(messages) + 2
    /\ chat_history[Len(chat_history) - 1] = HumanMessage(chat_message)

\* C9: between turns chat_history and messages have the same number of
\* entries, and the AI text of each turn equals the answer of the turn's
\* assistant entry.
C9_HistoriesParallel ==
    pc = "done" =>
        /\ Len(chat_history) = Len(messages)
        /\ \A i \in 1..Len(messages) :
              messages[i].role = "assistant" =>
                  chat_history[i].content = messages[i].content.answer

\* C10: when the mode is not document search get_llm_response does not touch
\* the retriever, whatever its state, and takes the inquiry branch.
C10_InquiryIgnoresRetriever ==
    Called =>
        /\ ret.used_retriever => mode = ANSWER_MODE_1
        /\ mode # ANSWER_MODE_1 =>
              ret.path \in {"inquiry_ok", "inquiry_except", "raised"}

C10_Witness ==
    /\ retriever = "broken"
    /\ mode = ANSWER_MODE_2
    /\ ret.path = "inquiry_ok"
    /\ ret.value.answer = "an answer"

====
